---- MODULE Spec2Model ----
(***************************************************************************)
(* Quota admin controller of lib/galaxy/webapps/galaxy/api/quotas.py.      *)
(*                                                                         *)
(* The file binds eight operations on quotas to QuotasManager calls twice: *)
(* FastAPIQuota (typed routes) and QuotaAPIController (legacy kwargs).     *)
(* The model runs the two surfaces side by side: every submitted request   *)
(* is handled once by each surface, each against its own copy of the       *)
(* manager's store, and the calls each handler makes are recorded.         *)
(*                                                                         *)
(* QuotasManager, galaxy.util.string_as_bool, the galaxy.quota._schema     *)
(* models and the admin guards are imported by the file and are not part   *)
(* of it; they are modelled from the written specification.                *)
(***************************************************************************)
EXTENDS Naturals, Sequences, FiniteSets, TLC

VARIABLES
    req,        \* the request being handled (both surfaces get the same one)
    phaseT,     \* "idle" | "pending" | "done": typed surface's handling of req
    phaseL,     \* the same for the legacy surface
    handlerT,   \* the FastAPIQuota handler the router dispatched req to
    handlerL,   \* the QuotaAPIController action req was dispatched to
    callsT,     \* QuotasManager calls made by the typed handler for req
    callsL,     \* QuotasManager calls made by the legacy handler for req
    resultsT,   \* what the manager returned/raised for each call of callsT
    resultsL,   \* the same for callsL
    outT,       \* outcome of req on the typed surface
    outL,       \* outcome of req on the legacy surface
    dbT,        \* manager store behind the typed surface: id -> visibility
    dbL,        \* manager store behind the legacy surface
    lastOpT     \* id -> last lifecycle request that succeeded on it (typed)

vars == <<req, phaseT, phaseL, handlerT, handlerL, callsT, callsL,
          resultsT, resultsL, outT, outL, dbT, dbL, lastOpT>>

(***************************************************************************)
(* Bounds and value domains                                                *)
(***************************************************************************)

\* Number of quota identifiers in play (existing or not).
MaxQuotas == 2

\* Encoded identifiers are opaque strings; none of them is a number.
IdPool == << "f2db41e1fa331b3e", "33b43b4e7093c91f",
             "1cd8e2f6b131e891", "ebfb8f50c6abde6d" >>

Ids == { IdPool[i] : i \in 1..MaxQuotas }

NoId == "-"

\* Values of the legacy 'deleted' keyword argument; Absent: not supplied.
Absent == "<absent>"

TruthyArgs == { "True", "true", "TRUE", "1" }

FalsyArgs == { "False", "false", "", "0", "no", "deleted" }

DelStrings == TruthyArgs \cup FalsyArgs

\* Keys a request body may carry.
CreateKeys == { "name", "amount" }

DeleteKeys == { "purge" }

\* A request body: present or not, the keys it carries, and whether the
\* values are semantically acceptable to the manager (sem).
NoBody == [present |-> FALSE, fields |-> {}, sem |-> TRUE]

ObjectBody(fs, s) == [present |-> TRUE, fields |-> fs, sem |-> s]

Ops == { "list", "list_deleted", "show", "show_deleted",
         "create", "update", "delete", "undelete" }

(***************************************************************************)
(* Python values handed to the manager                                     *)
(***************************************************************************)

\* No payload argument in the call at all.
NoPayload == [kind |-> "NoArg", fields |-> {}, sem |-> TRUE]

\* Python None.
PyNone == [kind |-> "None", fields |-> {}, sem |-> TRUE]

Call(m, id, del, p) == [method |-> m, id |-> id, deleted |-> del, payload |-> p]

Result(e, its, msg) == [err |-> e, items |-> its, msg |-> msg]

NoResult == Result("none", {}, "")

(***************************************************************************)
(* Collaborators imported by quotas.py (modelled from the specification)   *)
(***************************************************************************)

\* str.lower() on the argument strings in play.
Lower(s) ==
    CASE s = "True"  -> "true"
      [] s = "TRUE"  -> "true"
      [] s = "False" -> "false"
      [] OTHER       -> s

\* galaxy.util.string_as_bool: "true"/"1" in any case are true, anything
\* else is false.
string_as_bool(s) == Lower(s) \in { "true", "1" }

\* Fields CreateQuotaParams cannot be built without.
CreateRequired == { "name", "amount" }

\* CreateQuotaParams(**payload): fails without the required fields, keeps
\* the fields of the schema.
CreateQuotaParams(body) ==
    [ok    |-> CreateRequired \subseteq body.fields,
     value |-> [kind |-> "CreateQuotaParams",
                fields |-> body.fields \cap CreateKeys, sem |-> body.sem]]

\* UpdateQuotaParams(**payload): every field is optional.
UpdateQuotaParams(body) ==
    [ok    |-> TRUE,
     value |-> [kind |-> "UpdateQuotaParams",
                fields |-> body.fields \cap CreateKeys, sem |-> body.sem]]

\* DeleteQuotaPayload(**kwargs): every field is optional; no kwargs gives
\* the default payload.
DeleteQuotaPayload(fs) ==
    [kind |-> "DeleteQuotaPayload", fields |-> fs \cap DeleteKeys, sem |-> TRUE]

\* The default of QuotasManager.index/show's 'deleted' parameter.
ManagerDefaultDeleted == FALSE

\* Outcome of the admin guard (AdminUserRequired / web.require_admin).
AuthorizationFailure == Result("AuthorizationError", {}, "")

\* Outcome of a payload the schema rejects.
ValidationFailure == Result("ValidationError", {}, "")

Visible(db, id, del) == db[id] = (IF del THEN "deleted" ELSE "active")

Summary(db, id) == [id |-> id, deleted |-> db[id] = "deleted"]

FreeIds(db) == { i \in 1..MaxQuotas : db[IdPool[i]] = "absent" }

NewId(db) == IdPool[CHOOSE i \in FreeIds(db) : \A j \in FreeIds(db) : i <= j]

\* One QuotasManager call against store db: the store afterwards and what
\* the call returned or raised.
ManagerApply(db, c) ==
    CASE c.method = "index" ->
           [db  |-> db,
            res |-> Result("none",
                           { Summary(db, id) : id \in { i \in Ids : Visible(db, i, c.deleted) } },
                           "")]
      [] c.method = "show" ->
           IF c.id \in Ids /\ Visible(db, c.id, c.deleted)
           THEN [db |-> db, res |-> Result("none", { Summary(db, c.id) }, "")]
           ELSE [db |-> db, res |-> Result("NotFound", {}, "")]
      [] c.method = "create" ->
           IF ~c.payload.sem
           THEN [db |-> db, res |-> ValidationFailure]
           ELSE IF FreeIds(db) = {}
           THEN [db |-> db, res |-> Result("ConflictError", {}, "")]
           ELSE [db  |-> [db EXCEPT ![NewId(db)] = "active"],
                 res |-> Result("none", { [id |-> NewId(db), deleted |-> FALSE] }, "created")]
      [] c.method = "update" ->
           IF ~(c.id \in Ids /\ Visible(db, c.id, FALSE))
           THEN [db |-> db, res |-> Result("NotFound", {}, "")]
           ELSE IF ~c.payload.sem
           THEN [db |-> db, res |-> ValidationFailure]
           ELSE [db |-> db, res |-> Result("none", {}, "updated")]
      [] c.method = "delete" ->
           IF ~(c.id \in Ids /\ Visible(db, c.id, FALSE))
           THEN [db |-> db, res |-> Result("NotFound", {}, "")]
           ELSE [db  |-> [db EXCEPT ![c.id] = "deleted"],
                 res |-> Result("none", {}, "deleted")]
      [] c.method = "undelete" ->
           IF ~(c.id \in Ids) \/ db[c.id] = "absent"
           THEN [db |-> db, res |-> Result("NotFound", {}, "")]
           ELSE IF db[c.id] = "active"
           THEN [db |-> db, res |-> Result("ConflictError", {}, "")]
           ELSE [db  |-> [db EXCEPT ![c.id] = "active"],
                 res |-> Result("none", {}, "undeleted")]

\* The calls of one handler in order; an exception ends the handler.
RECURSIVE RunCalls(_, _, _)
RunCalls(db, calls, acc) ==
    IF calls = << >>
    THEN [db |-> db, results |-> acc]
    ELSE LET r == ManagerApply(db, Head(calls))
         IN  IF r.res.err # "none"
             THEN [db |-> r.db, results |-> Append(acc, r.res)]
             ELSE RunCalls(r.db, Tail(calls), Append(acc, r.res))

(***************************************************************************)
(* Requests                                                                *)
(***************************************************************************)

NeedsId(op) == op \in { "show", "show_deleted", "update", "delete", "undelete" }

\* HTTP method and path of each operation (the spec's interface table).
Method(op) ==
    CASE op \in { "list", "list_deleted", "show", "show_deleted" } -> "GET"
      [] op \in { "create", "undelete" } -> "POST"
      [] op = "update" -> "PUT"
      [] op = "delete" -> "DELETE"

Path(op, id) ==
    CASE op \in { "list", "create" }  -> << "api", "quotas" >>
      [] op = "list_deleted"          -> << "api", "quotas", "deleted" >>
      [] op \in { "show", "update", "delete" } -> << "api", "quotas", id >>
      [] op = "show_deleted"          -> << "api", "quotas", "deleted", id >>
      [] op = "undelete"              -> << "api", "quotas", "deleted", id, "undelete" >>

BodiesOf(op) ==
    CASE op \in { "create", "update" } ->
           { ObjectBody(fs, s) : fs \in SUBSET CreateKeys, s \in BOOLEAN }
      [] op = "delete" ->
           { NoBody } \cup { ObjectBody(fs, TRUE) : fs \in SUBSET DeleteKeys }
      [] OTHER -> { NoBody }

\* The 'deleted' keyword the legacy routes hand to index/show.
DeletedArgsOf(op) ==
    CASE op \in { "list", "show" }                 -> FalsyArgs \cup { Absent }
      [] op \in { "list_deleted", "show_deleted" } -> TruthyArgs
      [] OTHER                                     -> { Absent }

Request(a, op, id, b, d) ==
    [admin |-> a, op |-> op, id |-> id, body |-> b, deleted |-> d]

NoRequest == Request(FALSE, "none", NoId, NoBody, Absent)

(***************************************************************************)
(* FastAPIQuota: the typed surface                                         *)
(***************************************************************************)

Param == "{id}"

Route(m, p, h) ==
    [method |-> m, path |-> p, handler |-> h, dependencies |-> { "AdminUserRequired" }]

NoRoute == [method |-> "", path |-> << >>, handler |-> "none", dependencies |-> {}]

\* Mutation: the undelete route registered without the admin dependency.
Mutant_Routes_UnguardedUndelete ==
    << Route("GET",    << "api", "quotas" >>,                               "index"),
       Route("GET",    << "api", "quotas", "deleted" >>,                    "index_deleted"),
       Route("GET",    << "api", "quotas", Param >>,                        "show"),
       Route("GET",    << "api", "quotas", "deleted", Param >>,             "show_deleted"),
       Route("POST",   << "api", "quotas" >>,                               "create"),
       Route("PUT",    << "api", "quotas", Param >>,                        "update"),
       Route("DELETE", << "api", "quotas", Param >>,                        "delete"),
       [method |-> "POST", path |-> << "api", "quotas", "deleted", Param, "undelete" >>,
        handler |-> "undelete", dependencies |-> {}] >>

\* Mutation: /api/quotas/{id} registered before /api/quotas/deleted.
Mutant_Routes_ShowFirst ==
    << Route("GET",    << "api", "quotas" >>,                               "index"),
       Route("GET",    << "api", "quotas", Param >>,                        "show"),
       Route("GET",    << "api", "quotas", "deleted" >>,                    "index_deleted"),
       Route("GET",    << "api", "quotas", "deleted", Param >>,             "show_deleted"),
       Route("POST",   << "api", "quotas" >>,                               "create"),
       Route("PUT",    << "api", "quotas", Param >>,                        "update"),
       Route("DELETE", << "api", "quotas", Param >>,                        "delete"),
       Route("POST",   << "api", "quotas", "deleted", Param, "undelete" >>, "undelete") >>

\* The routes of FastAPIQuota in registration order.
Routes ==
    << Route("GET",    << "api", "quotas" >>,                               "index"),
       Route("GET",    << "api", "quotas", "deleted" >>,                    "index_deleted"),
       Route("GET",    << "api", "quotas", Param >>,                        "show"),
       Route("GET",    << "api", "quotas", "deleted", Param >>,             "show_deleted"),
       Route("POST",   << "api", "quotas" >>,                               "create"),
       Route("PUT",    << "api", "quotas", Param >>,                        "update"),
       Route("DELETE", << "api", "quotas", Param >>,                        "delete"),
       Route("POST",   << "api", "quotas", "deleted", Param, "undelete" >>, "undelete") >>

Matches(rt, m, p) ==
    /\ rt.method = m
    /\ Len(rt.path) = Len(p)
    /\ \A i \in 1..Len(p) : rt.path[i] = Param \/ rt.path[i] = p[i]

\* The first registered route that matches.
Dispatch(m, p) ==
    LET hits == { i \in 1..Len(Routes) : Matches(Routes[i], m, p) }
    IN  IF hits = {} THEN NoRoute
        ELSE Routes[CHOOSE i \in hits : \A j \in hits : i <= j]

\* The value bound to the handler's id parameter.
PathParam(rt, p) ==
    LET at == { i \in 1..Len(rt.path) : rt.path[i] = Param }
    IN  IF at = {} THEN NoId ELSE p[CHOOSE i \in at : TRUE]

Plan(cs) == [raised |-> FALSE, calls |-> cs]

\* The handler ends with a ValidationError before any manager call.
Rejected == [raised |-> TRUE, calls |-> << >>]

FastAPIQuota_index_plan ==
    Plan(<< Call("index", NoId, ManagerDefaultDeleted, NoPayload) >>)

\* Mutation: index_deleted leaves the deleted flag at its default.
Mutant_index_deleted_plan_default ==
    Plan(<< Call("index", NoId, ManagerDefaultDeleted, NoPayload) >>)

FastAPIQuota_index_deleted_plan ==
    Plan(<< Call("index", NoId, TRUE, NoPayload) >>)

FastAPIQuota_show_plan(id) ==
    Plan(<< Call("show", id, ManagerDefaultDeleted, NoPayload) >>)

\* Mutation: show_deleted looks the quota up among the active ones.
Mutant_show_deleted_plan_active(id) ==
    Plan(<< Call("show", id, ManagerDefaultDeleted, NoPayload) >>)

FastAPIQuota_show_deleted_plan(id) ==
    Plan(<< Call("show", id, TRUE, NoPayload) >>)

FastAPIQuota_create_plan(body) ==
    LET payload == CreateQuotaParams(body)
    IN  IF ~payload.ok THEN Rejected
        ELSE Plan(<< Call("create", NoId, FALSE, payload.value) >>)

\* Mutation: update decodes the id to a database key before the call.
Mutant_update_plan_decoded(id, body) ==
    LET key == CHOOSE i \in 1..Len(IdPool) : IdPool[i] = id
    IN  Plan(<< Call("update", IF key = 1 THEN "1" ELSE "2", FALSE,
                     UpdateQuotaParams(body).value) >>)

FastAPIQuota_update_plan(id, body) ==
    LET payload == UpdateQuotaParams(body)
    IN  IF ~payload.ok THEN Rejected
        ELSE Plan(<< Call("update", id, FALSE, payload.value) >>)

\* payload: DeleteQuotaPayload = Body(None): None when there is no body.
FastAPIQuota_delete_plan(id, body) ==
    LET payload == IF body.present THEN DeleteQuotaPayload(body.fields) ELSE PyNone
    IN  Plan(<< Call("delete", id, FALSE, payload) >>)

FastAPIQuota_undelete_plan(id) ==
    Plan(<< Call("undelete", id, FALSE, NoPayload) >>)

(***************************************************************************)
(* QuotaAPIController: the legacy surface                                  *)
(***************************************************************************)

\* The controller action each operation is routed to (the docstrings).
LegacyAction(op) ==
    CASE op \in { "list", "list_deleted" } -> "index"
      [] op \in { "show", "show_deleted" } -> "show"
      [] OTHER                             -> op

\* The decorators of each action, outermost first.
LegacyDecorators(action) == << "require_admin", "expose_api" >>

\* Mutation: the flag decided by the truthiness of the string.
Mutant_index_plan_truthiness(deleted) ==
    LET d == IF deleted = Absent THEN "False" ELSE deleted
    IN  Plan(<< Call("index", NoId, d # "", NoPayload) >>)

\* deleted='False' in the signature.
QuotaAPIController_index_plan(deleted) ==
    LET d == IF deleted = Absent THEN "False" ELSE deleted
    IN  Plan(<< Call("index", NoId, string_as_bool(d), NoPayload) >>)

QuotaAPIController_show_plan(id, deleted) ==
    LET d == IF deleted = Absent THEN "False" ELSE deleted
    IN  Plan(<< Call("show", id, string_as_bool(d), NoPayload) >>)

\* Mutation: create hands the request's dict to the manager unparsed.
Mutant_create_plan_unparsed(body) ==
    Plan(<< Call("create", NoId, FALSE,
                 [kind |-> "dict", fields |-> body.fields, sem |-> body.sem]) >>)

QuotaAPIController_create_plan(body) ==
    LET params == CreateQuotaParams(body)
    IN  IF ~params.ok THEN Rejected
        ELSE Plan(<< Call("create", NoId, FALSE, params.value) >>)

QuotaAPIController_update_plan(id, body) ==
    LET params == UpdateQuotaParams(body)
    IN  IF ~params.ok THEN Rejected
        ELSE Plan(<< Call("update", id, FALSE, params.value) >>)

\* kwd.get('payload', {})
QuotaAPIController_delete_plan(id, body) ==
    LET kw == IF body.present THEN body.fields ELSE {}
    IN  Plan(<< Call("delete", id, FALSE, DeleteQuotaPayload(kw)) >>)

QuotaAPIController_undelete_plan(id) ==
    Plan(<< Call("undelete", id, FALSE, NoPayload) >>)

\* Mutation: an error of the manager call is replaced by an empty success.
Mutant_HandlerReturn_swallow(results) ==
    IF results[Len(results)].err # "none"
    THEN Result("none", {}, "")
    ELSE results[Len(results)]

\* "return self.manager.<method>(...)": the handler's outcome is what its
\* manager call returned or raised.
HandlerReturn(results) == results[Len(results)]

(***************************************************************************)
(* State machine                                                           *)
(***************************************************************************)

Init ==
    /\ req = NoRequest
    /\ phaseT = "idle" /\ phaseL = "idle"
    /\ handlerT = "none" /\ handlerL = "none"
    /\ callsT = << >> /\ callsL = << >>
    /\ resultsT = << >> /\ resultsL = << >>
    /\ outT = NoResult /\ outL = NoResult
    /\ dbT = [id \in Ids |-> "absent"]
    /\ dbL = [id \in Ids |-> "absent"]
    /\ lastOpT = [id \in Ids |-> "none"]

\* A request arrives once the previous one has been answered on both
\* surfaces.  A create is only submitted while an identifier is left.
Submit ==
    /\ phaseT # "pending" /\ phaseL # "pending"
    /\ \E a \in BOOLEAN, op \in Ops :
         /\ op = "create" => FreeIds(dbT) # {} /\ FreeIds(dbL) # {}
         /\ \E id \in (IF NeedsId(op) THEN Ids ELSE { NoId }),
               b \in BodiesOf(op), d \in DeletedArgsOf(op) :
              req' = Request(a, op, id, b, d)
    /\ phaseT' = "pending" /\ phaseL' = "pending"
    /\ handlerT' = "none" /\ handlerL' = "none"
    /\ callsT' = << >> /\ callsL' = << >>
    /\ resultsT' = << >> /\ resultsL' = << >>
    /\ outT' = NoResult /\ outL' = NoResult
    /\ UNCHANGED <<dbT, dbL, lastOpT>>

ReqPath == Path(req.op, req.id)

ReqRoute == Dispatch(Method(req.op), ReqPath)

ReqPathId == PathParam(ReqRoute, ReqPath)

\* The lifecycle request that last succeeded on each id.
Lifecycle(last, h, id, out) ==
    IF out.err # "none" THEN last
    ELSE IF h \in { "delete", "undelete" } THEN [last EXCEPT ![id] = h]
    ELSE IF h = "create" /\ out.items # {}
         THEN [last EXCEPT ![(CHOOSE q \in out.items : TRUE).id] = "create"]
    ELSE last

\* One request on the typed surface: route dependencies, then parameter
\* binding, then the handler body.
TypedHandle(h, plan) ==
    /\ handlerT' = h
    /\ phaseT' = "done"
    /\ IF "AdminUserRequired" \in ReqRoute.dependencies /\ ~req.admin
       THEN /\ outT' = AuthorizationFailure
            /\ callsT' = << >> /\ resultsT' = << >>
            /\ UNCHANGED <<dbT, lastOpT>>
       ELSE IF plan.raised
       THEN /\ outT' = ValidationFailure
            /\ callsT' = << >> /\ resultsT' = << >>
            /\ UNCHANGED <<dbT, lastOpT>>
       ELSE LET run == RunCalls(dbT, plan.calls, << >>)
                out == HandlerReturn(run.results)
            IN  /\ dbT' = run.db
                /\ callsT' = SubSeq(plan.calls, 1, Len(run.results))
                /\ resultsT' = run.results
                /\ outT' = out
                /\ lastOpT' = Lifecycle(lastOpT, h, req.id, out)
    /\ UNCHANGED <<req, phaseL, handlerL, callsL, resultsL, outL, dbL>>

TypedRouted(h) == phaseT = "pending" /\ ReqRoute.handler = h

FastAPIQuota_index ==
    TypedRouted("index") /\ TypedHandle("index", FastAPIQuota_index_plan)

FastAPIQuota_index_deleted ==
    TypedRouted("index_deleted")
    /\ TypedHandle("index_deleted", FastAPIQuota_index_deleted_plan)

FastAPIQuota_show ==
    TypedRouted("show") /\ TypedHandle("show", FastAPIQuota_show_plan(ReqPathId))

FastAPIQuota_show_deleted ==
    TypedRouted("show_deleted")
    /\ TypedHandle("show_deleted", FastAPIQuota_show_deleted_plan(ReqPathId))

FastAPIQuota_create ==
    TypedRouted("create") /\ TypedHandle("create", FastAPIQuota_create_plan(req.body))

FastAPIQuota_update ==
    TypedRouted("update")
    /\ TypedHandle("update", FastAPIQuota_update_plan(ReqPathId, req.body))

FastAPIQuota_delete ==
    TypedRouted("delete")
    /\ TypedHandle("delete", FastAPIQuota_delete_plan(ReqPathId, req.body))

FastAPIQuota_undelete ==
    TypedRouted("undelete")
    /\ TypedHandle("undelete", FastAPIQuota_undelete_plan(ReqPathId))

\* One request on the legacy surface: the decorators, then the body.
LegacyHandle(a, plan) ==
    /\ handlerL' = a
    /\ phaseL' = "done"
    /\ IF (\E i \in 1..Len(LegacyDecorators(a)) : LegacyDecorators(a)[i] = "require_admin")
          /\ ~req.admin
       THEN /\ outL' = AuthorizationFailure
            /\ callsL' = << >> /\ resultsL' = << >>
            /\ UNCHANGED dbL
       ELSE IF plan.raised
       THEN /\ outL' = ValidationFailure
            /\ callsL' = << >> /\ resultsL' = << >>
            /\ UNCHANGED dbL
       ELSE LET run == RunCalls(dbL, plan.calls, << >>)
            IN  /\ dbL' = run.db
                /\ callsL' = SubSeq(plan.calls, 1, Len(run.results))
                /\ resultsL' = run.results
                /\ outL' = HandlerReturn(run.results)
    /\ UNCHANGED <<req, phaseT, handlerT, callsT, resultsT, outT, dbT, lastOpT>>

LegacyRouted(a) == phaseL = "pending" /\ LegacyAction(req.op) = a

QuotaAPIController_index ==
    LegacyRouted("index")
    /\ LegacyHandle("index", QuotaAPIController_index_plan(req.deleted))

QuotaAPIController_show ==
    LegacyRouted("show")
    /\ LegacyHandle("show", QuotaAPIController_show_plan(req.id, req.deleted))

QuotaAPIController_create ==
    LegacyRouted("create")
    /\ LegacyHandle("create", QuotaAPIController_create_plan(req.body))

QuotaAPIController_update ==
    LegacyRouted("update")
    /\ LegacyHandle("update", QuotaAPIController_update_plan(req.id, req.body))

QuotaAPIController_delete ==
    LegacyRouted("delete")
    /\ LegacyHandle("delete", QuotaAPIController_delete_plan(req.id, req.body))

QuotaAPIController_undelete ==
    LegacyRouted("undelete")
    /\ LegacyHandle("undelete", QuotaAPIController_undelete_plan(req.id))

Next ==
    \/ Submit
    \/ FastAPIQuota_index
    \/ FastAPIQuota_index_deleted
    \/ FastAPIQuota_show
    \/ FastAPIQuota_show_deleted
    \/ FastAPIQuota_create
    \/ FastAPIQuota_update
    \/ FastAPIQuota_delete
    \/ FastAPIQuota_undelete
    \/ QuotaAPIController_index
    \/ QuotaAPIController_show
    \/ QuotaAPIController_create
    \/ QuotaAPIController_update
    \/ QuotaAPIController_delete
    \/ QuotaAPIController_undelete

Spec == Init /\ [][Next]_vars

(***************************************************************************)
(* Properties                                                              *)
(***************************************************************************)

AdminDoneT == phaseT = "done" /\ req.admin

AdminDoneL == phaseL = "done" /\ req.admin

\* C1: a request without administrator privilege ends, on either surface
\* and for every operation, in the authorization failure, and no
\* QuotasManager method has been called for it.
C1_UnauthorizedRejectedBeforeManager ==
    /\ (phaseT = "done" /\ ~req.admin) =>
           outT = AuthorizationFailure /\ callsT = << >> /\ resultsT = << >>
    /\ (phaseL = "done" /\ ~req.admin) =>
           outL = AuthorizationFailure /\ callsL = << >> /\ resultsL = << >>

\* A non-admin undelete of a deleted quota has been answered on both surfaces.
C1_Witness ==
    /\ phaseT = "done" /\ phaseL = "done" /\ ~req.admin
    /\ req.op = "undelete"
    /\ dbT[req.id] = "deleted" /\ dbL[req.id] = "deleted"
    /\ outT = AuthorizationFailure /\ outL = AuthorizationFailure

\* C2: on each surface an authorized delete without a body hands
\* QuotasManager.delete the payload it hands over for an explicit empty
\* body, the default DeleteQuotaPayload.
C2_AbsentBodyGivesDefaultPayload ==
    /\ (AdminDoneT /\ req.op = "delete" /\ ~req.body.present) =>
           /\ Len(callsT) = 1
           /\ callsT[1].payload =
                  FastAPIQuota_delete_plan(req.id, ObjectBody({}, TRUE)).calls[1].payload
           /\ callsT[1].payload = DeleteQuotaPayload({})
    /\ (AdminDoneL /\ req.op = "delete" /\ ~req.body.present) =>
           /\ Len(callsL) = 1
           /\ callsL[1].payload =
                  QuotaAPIController_delete_plan(req.id, ObjectBody({}, TRUE)).calls[1].payload
           /\ callsL[1].payload = DeleteQuotaPayload({})

\* C3: once both surfaces have answered an authorized request, they have
\* made the same manager calls with equal arguments, returned the same
\* outcome and left their stores equal.
C3_SurfacesAgree ==
    (AdminDoneT /\ AdminDoneL) =>
        /\ callsT = callsL
        /\ outT = outL
        /\ dbT = dbL

\* The strings the claim reads as true.
C4_TrueStrings == { "True", "true", "TRUE", "1" }

\* C4: legacy index/show call the manager with deleted = TRUE exactly for
\* "True"/"true"/"1" in any case, and with deleted = FALSE for "False",
\* "false", "", an absent argument and any other string; the answer is the
\* matching listing or lookup.
C4_LegacyDeletedCoercion ==
    (AdminDoneL /\ handlerL \in { "index", "show" }) =>
        /\ Len(callsL) = 1
        /\ callsL[1].method = handlerL
        /\ callsL[1].deleted = (req.deleted \in C4_TrueStrings)
        /\ \A q \in outL.items : q.deleted = (req.deleted \in C4_TrueStrings)
        /\ (handlerL = "index") =>
               \A id \in Ids :
                   (dbL[id] = (IF req.deleted \in C4_TrueStrings THEN "deleted" ELSE "active"))
                       => \E q \in outL.items : q.id = id

\* The legacy index was given deleted="False" while a deleted and an active
\* quota exist, and listed the active one.
C4_Witness ==
    /\ AdminDoneL /\ handlerL = "index" /\ req.deleted = "False"
    /\ \E id \in Ids : dbL[id] = "deleted"
    /\ \E q \in outL.items : ~q.deleted

\* C5: while the last successful lifecycle request on an id is a delete,
\* show-active on it fails with NotFound and show-deleted returns it; while
\* it is an undelete, show-active returns it and show-deleted fails with
\* NotFound, whatever happened to other ids in between.
C5_DeleteUndeleteVisibility ==
    (AdminDoneT /\ handlerT \in { "show", "show_deleted" }) =>
        /\ lastOpT[req.id] = "delete" =>
               /\ handlerT = "show" => outT.err = "NotFound"
               /\ handlerT = "show_deleted" =>
                      outT = Result("none", { [id |-> req.id, deleted |-> TRUE] }, "")
        /\ lastOpT[req.id] = "undelete" =>
               /\ handlerT = "show" =>
                      outT = Result("none", { [id |-> req.id, deleted |-> FALSE] }, "")
               /\ handlerT = "show_deleted" => outT.err = "NotFound"

\* show-deleted on a quota that was deleted and undeleted fails with
\* NotFound while another quota is deleted.
C5_Witness ==
    /\ AdminDoneT /\ handlerT = "show_deleted"
    /\ lastOpT[req.id] = "undelete"
    /\ outT.err = "NotFound"
    /\ \E id \in Ids : id # req.id /\ lastOpT[id] = "delete"

\* C6: the typed index calls manager.index with deleted = FALSE and
\* index_deleted with deleted = TRUE; the active listing holds no deleted
\* quota and the deleted listing no active one, on either surface and in
\* every state of the store.
C6_ListingsRespectDeletedFlag ==
    /\ (AdminDoneT /\ handlerT = "index") =>
           /\ callsT = << Call("index", NoId, FALSE, NoPayload) >>
           /\ \A q \in outT.items : ~q.deleted /\ dbT[q.id] = "active"
    /\ (AdminDoneT /\ handlerT = "index_deleted") =>
           /\ callsT = << Call("index", NoId, TRUE, NoPayload) >>
           /\ \A q \in outT.items : q.deleted /\ dbT[q.id] = "deleted"
    /\ (AdminDoneL /\ handlerL = "index") =>
           \A q \in outL.items :
               q.deleted = callsL[1].deleted
    /\ \A del \in BOOLEAN :
           \A q \in ManagerApply(dbT, Call("index", NoId, del, NoPayload)).res.items :
               q.deleted = del

\* The typed index_deleted listed a deleted quota while an active one exists.
C6_Witness ==
    /\ AdminDoneT /\ handlerT = "index_deleted"
    /\ outT.items # {}
    /\ \E id \in Ids : dbT[id] = "active"

\* C7: the id handed to the manager by show, show_deleted, update, delete
\* and undelete is the string of the request path, on either surface.
C7_IdPassedUnchanged ==
    /\ (AdminDoneT /\ NeedsId(req.op)) =>
           Len(callsT) = 1 /\ callsT[1].id = req.id
    /\ (AdminDoneL /\ NeedsId(req.op)) =>
           Len(callsL) = 1 /\ callsL[1].id = req.id

\* An update of an existing quota went to the manager on both surfaces.
C7_Witness ==
    /\ AdminDoneT /\ AdminDoneL /\ req.op = "update"
    /\ dbT[req.id] = "active"
    /\ callsT # << >> /\ callsL # << >>
    /\ outT.err = "none"

\* C8: an authorized request calls the manager at most once and its outcome
\* is what that call returned or raised; without a call the outcome is the
\* ValidationError of parameter coercion.
C8_NoRecoveryNoRetry ==
    /\ AdminDoneT =>
           /\ Len(callsT) <= 1
           /\ Len(resultsT) = Len(callsT)
           /\ Len(callsT) = 1 => outT = resultsT[1]
           /\ Len(callsT) = 0 => outT = ValidationFailure
    /\ AdminDoneL =>
           /\ Len(callsL) <= 1
           /\ Len(resultsL) = Len(callsL)
           /\ Len(callsL) = 1 => outL = resultsL[1]
           /\ Len(callsL) = 0 => outL = ValidationFailure

\* The manager raised ConflictError (undelete of an active quota) and that
\* is the outcome on both surfaces.
C8_Witness ==
    /\ AdminDoneT /\ AdminDoneL
    /\ Len(resultsT) = 1 /\ resultsT[1].err = "ConflictError"
    /\ outT.err = "ConflictError" /\ outL.err = "ConflictError"

\* C9 as stated: every authorized create or update, malformed payloads
\* included, reaches QuotasManager.create / update, and a ValidationError
\* outcome is one the manager call raised.
C9_ManagerValidatesEveryPayload ==
    /\ (AdminDoneT /\ req.op \in { "create", "update" }) =>
           /\ Len(callsT) = 1 /\ callsT[1].method = req.op
           /\ outT.err = "ValidationError" =>
                  Len(resultsT) = 1 /\ resultsT[1].err = "ValidationError"
    /\ (AdminDoneL /\ req.op \in { "create", "update" }) =>
           /\ Len(callsL) = 1 /\ callsL[1].method = req.op
           /\ outL.err = "ValidationError" =>
                  Len(resultsL) = 1 /\ resultsL[1].err = "ValidationError"

C9_Schema(op, body) ==
    IF op = "create" THEN CreateQuotaParams(body) ELSE UpdateQuotaParams(body)

C9_Holds(calls, results, out) ==
    IF ~C9_Schema(req.op, req.body).ok
    THEN calls = << >> /\ results = << >> /\ out = ValidationFailure
    ELSE /\ Len(calls) = 1
         /\ calls[1].method = req.op
         /\ calls[1].payload = C9_Schema(req.op, req.body).value
         /\ out = results[1]

\* C9 amended: the controller first builds CreateQuotaParams /
\* UpdateQuotaParams from the payload; when that fails the outcome is
\* ValidationError and the manager is not called; otherwise the built
\* parameters go to QuotasManager.create / update in one call, whose result
\* or error is the outcome.
C9_SchemaThenManager ==
    /\ (AdminDoneT /\ req.op \in { "create", "update" }) => C9_Holds(callsT, resultsT, outT)
    /\ (AdminDoneL /\ req.op \in { "create", "update" }) => C9_Holds(callsL, resultsL, outL)

\* A create without the required name ended in ValidationError on both
\* surfaces without any manager call.
C9_Witness ==
    /\ AdminDoneT /\ AdminDoneL /\ req.op = "create"
    /\ ~("name" \in req.body.fields)
    /\ callsT = << >> /\ callsL = << >>
    /\ outT = ValidationFailure /\ outL = ValidationFailure

\* The handler the path table names for each operation.
C10_Handler(op) ==
    CASE op = "list"         -> "index"
      [] op = "list_deleted" -> "index_deleted"
      [] OTHER               -> op

\* C10: every request is dispatched to the handler the path table names;
\* GET /api/quotas/deleted goes to index_deleted (manager.index with
\* deleted = TRUE), never to show, and GET /api/quotas/deleted/{id} goes
\* to show_deleted.
C10_RoutesDispatchAsTabled ==
    /\ phaseT = "done" => handlerT = C10_Handler(req.op)
    /\ (AdminDoneT /\ req.op = "list_deleted") =>
           callsT = << Call("index", NoId, TRUE, NoPayload) >>
    /\ (AdminDoneT /\ req.op = "show_deleted") =>
           callsT = << Call("show", req.id, TRUE, NoPayload) >>
    /\ \A op \in Ops, id \in Ids :
           Dispatch(Method(op), Path(op, id)).handler = C10_Handler(op)

\* GET /api/quotas/deleted was answered by index_deleted with a deleted quota.
C10_Witness ==
    /\ AdminDoneT /\ req.op = "list_deleted"
    /\ handlerT = "index_deleted"
    /\ outT.items # {}

====
